---- MODULE Spec2Model ----
(***************************************************************************)
(* State-machine model of the degenduel-mcp server:                        *)
(*   - the request handlers registered on the MCP Server (src/index.ts),   *)
(*   - the tool schemas and handlers (src/tools/*.ts),                     *)
(*   - the HTTP/SSE session layer (src/httpServer.ts),                     *)
(*   - process entry and transport selection (src/index.ts main).          *)
(* The MCP SDK (Server, StdioServerTransport, SSEServerTransport), express *)
(* and zod are libraries the code calls; each call is modelled by what     *)
(* the library does at that call site.                                     *)
(***************************************************************************)
EXTENDS Integers, Sequences, FiniteSets, TLC

(* ------------------------------ bounds --------------------------------- *)
\* event-stream connections (GET /mcp) accepted in one run
MaxConns == 2
\* requests delivered to the Dispatcher in one run
MaxReqs == 2
\* bytes the input pipe of the process holds unread
MaxPipe == 4
\* calls of one tool examined in isolation, one after the other
MaxRuns == 2
(* ------------------------ program constants ---------------------------- *)
\* src/env/config.ts
HTTP_MODE_ENABLED == TRUE
\* JSON-RPC error codes of the SDK the Server answers with
InternalError == -32603
InvalidParams == -32602
MethodNotFound == -32601

(* ------------------------------- state --------------------------------- *)
VARIABLES
  phase,          \* "init" | "running": main() not yet run / transport connected
  httpRequested,  \* process.argv.includes('--http')
  httpModeEnabled, \* the setting of the configuration file the process was built with
  connected,      \* the transport the Server is connected to: "none", "stdio",
                  \* or the sessionId of an SSEServerTransport
  nextId,         \* session ids minted so far (one per SSEServerTransport built)
  conns,          \* the event-stream connections accepted by GET /mcp, in order
  sessions,       \* the Map sessionId -> transport (index in conns)
  last,           \* the last HTTP exchange: request, status, what the path did
  nReq,           \* requests the Dispatcher has received
  reqIds,         \* the id of each of them, in arrival order
  lastReq,        \* the last request the Dispatcher received and its synchronous outcome
  inflight,       \* suspended handlers: [n, id, handler]
  stdout,         \* the envelopes written by the stdio transport, in order
  console,        \* the last line console.log wrote to the process's output stream
  exitCode,       \* 0 while the process lives; the code it exited with afterwards
  written,        \* lines the client has written to the input stream
  pipe,           \* bytes written to the input stream and not yet read
  readBuffer,     \* the stdio transport's ReadBuffer: bytes read, no newline yet
  scheduled,      \* lines whose handler invocation is queued (microtasks)
  reqLines,       \* the input line of each request the Dispatcher received
  runs,           \* tool calls examined in isolation so far
  pc,             \* where the tool call under examination stands
  shot,           \* the screenshot call under examination: its arguments, what
                  \* the environment allows, what it has done so far, its result
  unclosed,       \* browsers launched by screenshot calls and not closed
  parsed,         \* the last APITestGeneratorSchema.parse: its input and outcome
  ran,            \* the last architect or code-review run examined: the tool, the
                  \* outcome of its external call, what it returned, the response
  resolved        \* the last target resolution examined: url, relativePath, finalUrl

dispVars == << nReq, reqIds, lastReq, inflight, stdout, console, exitCode >>
httpVars == << nextId, conns, sessions, last >>
stdinVars == << written, pipe, readBuffer, scheduled, reqLines >>
toolVars == << runs, pc, shot, unclosed, parsed, ran, resolved >>
vars == << phase, httpRequested, httpModeEnabled, connected, nextId, conns, sessions, last,
           nReq, reqIds, lastReq, inflight, stdout, console, exitCode,
           written, pipe, readBuffer, scheduled, reqLines,
           runs, pc, shot, unclosed, parsed, ran, resolved >>
serverVars == << phase, httpRequested, httpModeEnabled, connected,
                 nextId, conns, sessions, last,
                 nReq, reqIds, lastReq, inflight, stdout, console, exitCode,
                 written, pipe, readBuffer, scheduled, reqLines >>

(* --------------------------- JSON values ------------------------------- *)
Undefined == [kind |-> "undefined", val |-> ""]
Str(s) == [kind |-> "string", val |-> s]
Num == [kind |-> "number", val |-> "7"]
Vals == {Undefined, Str(""), Str("x"), Num}

\* JavaScript falsiness of a value that is undefined or a string
Falsy(v) == v.kind = "undefined" \/ (v.kind = "string" /\ v.val = "")

(* ------------------------------ tools ---------------------------------- *)
screenshotToolName == "screenshot"
architectToolName == "architect"
codeReviewToolName == "code-review"

\* zod object schemas, fields in declaration order
ScreenshotToolSchema ==
  << [name |-> "url", optional |-> TRUE, min |-> 0],
     [name |-> "relativePath", optional |-> TRUE, min |-> 0],
     [name |-> "fullPathToScreenshot", optional |-> FALSE, min |-> 0] >>

ArchitectToolSchema ==
  << [name |-> "task", optional |-> FALSE, min |-> 1],
     [name |-> "code", optional |-> FALSE, min |-> 1] >>

CodeReviewToolSchema ==
  << [name |-> "folderPath", optional |-> FALSE, min |-> 1] >>

FieldNames(schema) == {schema[i].name : i \in 1..Len(schema)}

\* z.string() / .optional() / .min(n) applied to one field's value:
\* "ok" or the zod issue code
FieldIssue(f, v) ==
  IF v.kind = "undefined"
    THEN (IF f.optional THEN "ok" ELSE "invalid_type")
    ELSE IF v.kind # "string" THEN "invalid_type"
    ELSE IF Len(v.val) < f.min THEN "too_small"
    ELSE "ok"

\* arguments of a tools/call request: absent, or an object
NoArgs == [kind |-> "undefined"]
Obj(fields) == [kind |-> "object", fields |-> fields]

\* Schema.parse(args): every violating field yields an issue, in declaration
\* order; parse throws a ZodError iff there is an issue
Issues(schema, args) ==
  IF args.kind # "object"
    THEN << [path |-> "", code |-> "invalid_type"] >>
    ELSE LET idx == {i \in 1..Len(schema) :
                       FieldIssue(schema[i], args.fields[schema[i].name]) # "ok"}
             RECURSIVE Build(_)
             Build(i) ==
               IF i > Len(schema) THEN << >>
               ELSE (IF i \in idx
                       THEN << [path |-> schema[i].name,
                                code |-> FieldIssue(schema[i], args.fields[schema[i].name])] >>
                       ELSE << >>) \o Build(i + 1)
         IN Build(1)

ParseOk(schema, args) == Issues(schema, args) = << >>

(* ----------------------- the screenshot target ------------------------- *)
PORT == 3333

\* a string argument as the sequence of its characters, or an absent one
NoText == [kind |-> "undefined", chars |-> << >>]
Text(chars) == [kind |-> "string", chars |-> chars]

\* `!x` of an optional string
Empty(t) == t.kind = "undefined" \/ t.chars = << >>

\* values of url: absent, empty, a full URL
Urls == {NoText, Text(<< >>), Text(<< "https://example.com" >>)}

\* values of relativePath: absent, empty, with no, one and two leading
\* slashes, a slash alone, a slash at the end only
RelativePaths ==
  {NoText, Text(<< >>), Text(<< "d" >>), Text(<< "/", "d" >>), Text(<< "/", "/", "d" >>),
   Text(<< "/" >>), Text(<< "d", "/" >>)}

\* a replace that removes every leading slash
RECURSIVE ReplaceLeadingSlashes(_)
ReplaceLeadingSlashes(chars) ==
  IF chars # << >> /\ Head(chars) = "/" THEN ReplaceLeadingSlashes(Tail(chars)) ELSE chars

\* relativePath.replace(/^\//, ""): the first character goes when it is a slash
ReplaceLeadingSlash(chars) ==
  IF chars # << >> /\ Head(chars) = "/" THEN Tail(chars) ELSE chars

\* finalUrl of runScreenshotTool; absent when the target check raises
FinalUrl(url, relativePath) ==
  IF ~Empty(url) THEN url
  ELSE IF Empty(relativePath) THEN NoText
  ELSE Text(<< "http://localhost:", ToString(PORT), "/" >> \o ReplaceLeadingSlash(relativePath.chars))

(* ------------------- the API test generator schema --------------------- *)
apiTestGeneratorToolName == "apitests"

TestFrameworkEnum == {"jest", "mocha", "chai", "supertest", "playwright", "cypress"}
OutputFormatEnum == {"javascript", "typescript"}
ContextTypeEnum == {"file", "endpoint", "folder"}

\* no default declared
NoDefault == Undefined

\* APITestGeneratorSchema, fields in declaration order: kind is "string",
\* "enum" or "array"; default is the value of .default(...)
APITestGeneratorSchema ==
  << [name |-> "spec", kind |-> "string", optional |-> FALSE, min |-> 1,
      enum |-> {}, default |-> NoDefault],
     [name |-> "framework", kind |-> "enum", optional |-> FALSE, min |-> 0,
      enum |-> TestFrameworkEnum, default |-> Str("jest")],
     [name |-> "outputFormat", kind |-> "enum", optional |-> FALSE, min |-> 0,
      enum |-> OutputFormatEnum, default |-> Str("javascript")],
     [name |-> "testDir", kind |-> "string", optional |-> TRUE, min |-> 0,
      enum |-> {}, default |-> NoDefault],
     [name |-> "endpoints", kind |-> "array", optional |-> TRUE, min |-> 0,
      enum |-> {}, default |-> NoDefault],
     [name |-> "currentFilePath", kind |-> "string", optional |-> TRUE, min |-> 0,
      enum |-> {}, default |-> NoDefault],
     [name |-> "contextType", kind |-> "enum", optional |-> TRUE, min |-> 0,
      enum |-> ContextTypeEnum, default |-> Str("file")],
     [name |-> "projectRoot", kind |-> "string", optional |-> TRUE, min |-> 0,
      enum |-> {}, default |-> NoDefault] >>

\* a field parse in which the declared default replaces whatever was given
ZodFieldDefaultWins(f, v) ==
  IF f.default # NoDefault THEN [issue |-> "ok", value |-> f.default]
  ELSE IF v.kind = "undefined"
    THEN [issue |-> (IF f.optional THEN "ok" ELSE "invalid_type"), value |-> v]
  ELSE [issue |-> "ok", value |-> v]

\* zod applied to one field: an absent field takes the default when one is
\* declared, is accepted when optional and is an invalid_type otherwise; a
\* present value is checked against the kind and kept as it is
ZodField(f, v) ==
  IF v.kind = "undefined"
    THEN IF f.default # NoDefault THEN [issue |-> "ok", value |-> f.default]
         ELSE [issue |-> (IF f.optional THEN "ok" ELSE "invalid_type"), value |-> v]
  ELSE IF f.kind = "array"
    THEN [issue |-> (IF v.kind = "array" THEN "ok" ELSE "invalid_type"), value |-> v]
  ELSE IF v.kind # "string" THEN [issue |-> "invalid_type", value |-> v]
  ELSE IF f.kind = "enum"
    THEN [issue |-> (IF v.val \in f.enum THEN "ok" ELSE "invalid_enum_value"), value |-> v]
  ELSE [issue |-> (IF Len(v.val) < f.min THEN "too_small" ELSE "ok"), value |-> v]

\* APITestGeneratorSchema.parse(args): the validated value, or the issues
ZodParse(schema, args) ==
  IF args.kind # "object"
    THEN [args |-> args, ok |-> FALSE, value |-> NoArgs,
          issues |-> << [path |-> "", code |-> "invalid_type"] >>]
    ELSE LET res == [i \in 1..Len(schema) |-> ZodField(schema[i], args.fields[schema[i].name])]
             bad == {i \in 1..Len(schema) : res[i].issue # "ok"}
             RECURSIVE Collect(_)
             Collect(i) ==
               IF i > Len(schema) THEN << >>
               ELSE (IF i \in bad
                       THEN << [path |-> schema[i].name, code |-> res[i].issue] >>
                       ELSE << >>) \o Collect(i + 1)
         IN IF bad = {}
              THEN [args |-> args, ok |-> TRUE,
                    value |-> Obj([n \in FieldNames(schema) |->
                                    res[CHOOSE i \in 1..Len(schema) : schema[i].name = n].value]),
                    issues |-> << >>]
              ELSE [args |-> args, ok |-> FALSE, value |-> NoArgs, issues |-> Collect(1)]

\* argument objects of an apitests call: spec absent, empty or given; each
\* field with a default absent, a member of its enum, a string outside it;
\* framework also a number; the other optional fields absent
ApiTestsArgs ==
  {Obj([n \in FieldNames(APITestGeneratorSchema) |->
         CASE n = "spec" -> sp
           [] n = "framework" -> fw
           [] n = "outputFormat" -> of
           [] n = "contextType" -> ct
           [] OTHER -> Undefined]) :
     sp \in {Undefined, Str(""), Str("x")},
     fw \in {Undefined, Str("jest"), Str("mocha"), Str("vitest"), Num},
     of \in {Undefined, Str("javascript"), Str("typescript"), Str("python")},
     ct \in {Undefined, Str("file"), Str("folder"), Str("project")}}

(* ----------------------------- requests -------------------------------- *)
\* the two request kinds a handler is registered for (setRequestHandler)
ListTools == "ListToolsRequest"
CallTool == "CallToolRequest"

RpcIds == {1, 2}

AllObjs(schema) == {Obj(f) : f \in [FieldNames(schema) -> Vals]}

ScreenshotArgs == AllObjs(ScreenshotToolSchema) \cup {NoArgs}
ArchitectArgs == AllObjs(ArchitectToolSchema) \cup {NoArgs}
CodeReviewArgs == AllObjs(CodeReviewToolSchema) \cup {NoArgs}

\* names a client may send that no case of the switch matches
UnknownNames == {"codeReview", "apitests"}

\* tools/list requests: without params, and with params the handler never reads
ListRequests ==
  [method : {ListTools}, id : RpcIds, name : {""},
   args : {NoArgs, Obj([folderPath |-> Str("x")])}]

CallRequests ==
  [method : {CallTool}, id : RpcIds, name : {screenshotToolName}, args : ScreenshotArgs]
  \cup [method : {CallTool}, id : RpcIds, name : {architectToolName}, args : ArchitectArgs]
  \cup [method : {CallTool}, id : RpcIds, name : {codeReviewToolName}, args : CodeReviewArgs]
  \cup [method : {CallTool}, id : RpcIds, name : UnknownNames,
        args : {NoArgs, Obj([folderPath |-> Str("x")])}]

Requests == ListRequests \cup CallRequests

NoRequest == [method |-> "", id |-> 0, name |-> "", args |-> NoArgs]

(* ------------------------- handler outcomes ---------------------------- *)
\* a JavaScript error object: its constructor name and its `code` property
ZodError == [name |-> "ZodError", code |-> Undefined]
PlainError == [name |-> "Error", code |-> Undefined]
SystemError == [name |-> "SystemError", code |-> Str("EACCES")]
NoError == [name |-> "", code |-> Undefined]

\* what running a handler up to its first suspension point gives:
\* kind    "throw" | "return" | "suspend" | "block"
\* handler the run*Tool function that was entered ("" when none was)
\* cause   why it threw
Throw(err, handler, cause) ==
  [kind |-> "throw", error |-> err, content |-> << >>, handler |-> handler, cause |-> cause]
Return(content, handler) ==
  [kind |-> "return", error |-> NoError, content |-> content, handler |-> handler, cause |-> ""]
Suspend(handler) ==
  [kind |-> "suspend", error |-> NoError, content |-> << >>, handler |-> handler, cause |-> ""]
\* the handler is inside a synchronous call that waits for a child process
Block(handler) ==
  [kind |-> "block", error |-> NoError, content |-> << >>, handler |-> handler, cause |-> ""]

\* a target check that looks at url only
RunScreenshotToolStartUrlOnly(args) ==
  IF Falsy(args.fields["url"])
    THEN Throw(PlainError, "runScreenshotTool", "handler")
    ELSE Suspend("runScreenshotTool")

\* runScreenshotTool up to `await puppeteer.launch`
RunScreenshotToolStart(args) ==
  IF Falsy(args.fields["url"]) /\ Falsy(args.fields["relativePath"])
    THEN Throw(PlainError, "runScreenshotTool", "handler")
    ELSE Suspend("runScreenshotTool")

\* a handler that raises an error carrying a numeric code of its own
CodedError == [name |-> "McpError", code |-> [kind |-> "number", int |-> InvalidParams]]
RunScreenshotToolFinishCoded(writable) ==
  IF writable
    THEN [kind |-> "return", error |-> NoError, content |-> << "text", "image" >>,
          handler |-> "runScreenshotTool", cause |-> ""]
    ELSE [kind |-> "throw", error |-> CodedError, content |-> << >>,
          handler |-> "runScreenshotTool", cause |-> "handler"]

\* runScreenshotTool from the browser/fallback capture to its return:
\* writing the output file raises when the path is not writable
RunScreenshotToolFinish(writable) ==
  IF writable
    THEN Return(<< "text", "image" >>, "runScreenshotTool")
    ELSE Throw(SystemError, "runScreenshotTool", "handler")

\* runArchitectTool up to `await openai.chat.completions.create`
RunArchitectToolStart(args) == Suspend("runArchitectTool")

\* an architect tool that lets the failure of the API call escape
RunArchitectToolFinishRethrow(apiOk) ==
  IF apiOk THEN Return(<< "text" >>, "runArchitectTool")
  ELSE Throw(PlainError, "runArchitectTool", "handler")

\* the text of the part runArchitectTool returns: the assistant's message,
\* or the error of the API call behind "OpenAI Error: "
ArchitectText(apiOk) == IF apiOk THEN "assistantMessage" ELSE "OpenAI Error"

\* the text of the part runCodeReviewTool returns: "Git Diff Output:" and
\* the instructions around the diff, or around the error of the git command
CodeReviewText(gitOk) == IF gitOk THEN "Git Diff Output" ELSE "Error running git diff"

\* runArchitectTool after the API call: a failure is returned as text
RunArchitectToolFinish(apiOk) == Return(<< "text" >>, "runArchitectTool")

\* a code review that awaits its child process instead of blocking on it
RunCodeReviewToolAsync(args) == Suspend("runCodeReviewTool")

\* runCodeReviewTool up to execSync(`git diff`), which blocks the thread
\* until the child process exits
RunCodeReviewTool(args) == Block("runCodeReviewTool")

\* runCodeReviewTool after execSync: its output, or its failure caught in
\* the try block, is returned as text
RunCodeReviewToolFinish(gitOk) == Return(<< "text" >>, "runCodeReviewTool")

\* a listing that also advertises the API test generator
ListedToolsWithApiTests ==
  << [name |-> screenshotToolName,
      properties |-> {"url", "relativePath", "fullPathToScreenshot"},
      required |-> {}],
     [name |-> architectToolName,
      properties |-> {"task", "code"},
      required |-> {"task", "code"}],
     [name |-> codeReviewToolName,
      properties |-> {"folderPath"},
      required |-> {"folderPath"}],
     [name |-> apiTestGeneratorToolName,
      properties |-> {"spec"},
      required |-> {"spec"}] >>

\* the descriptors the ListTools handler returns, in the order of its array
\* literal: name, the keys of inputSchema.properties (each of type string)
\* and inputSchema.required
ListedTools ==
  << [name |-> screenshotToolName,
      properties |-> {"url", "relativePath", "fullPathToScreenshot"},
      required |-> {}],
     [name |-> architectToolName,
      properties |-> {"task", "code"},
      required |-> {"task", "code"}],
     [name |-> codeReviewToolName,
      properties |-> {"folderPath"},
      required |-> {"folderPath"}] >>

\* a listing that leaves out the tools once a request has been served
ListToolsHandlerOnce(req) ==
  Return(IF nReq = 0 THEN [i \in 1..Len(ListedTools) |-> ListedTools[i].name] ELSE << >>, "")

\* the ListToolsRequestSchema handler: the names of the descriptors stand for
\* the descriptors in the response content
ListToolsHandler(req) ==
  Return([i \in 1..Len(ListedTools) |-> ListedTools[i].name], "")

\* a switch whose architect case passes the raw arguments to the handler
CallToolHandlerUnvalidated(req) ==
  CASE req.name = screenshotToolName ->
         IF ParseOk(ScreenshotToolSchema, req.args)
           THEN RunScreenshotToolStart(req.args)
           ELSE Throw(ZodError, "", "validation")
    [] req.name = architectToolName -> RunArchitectToolStart(req.args)
    [] req.name = codeReviewToolName ->
         IF ParseOk(CodeReviewToolSchema, req.args)
           THEN RunCodeReviewTool(req.args)
           ELSE Throw(ZodError, "", "validation")
    [] OTHER -> Throw(PlainError, "", "unknown-tool")

\* the CallToolRequestSchema handler up to its first suspension point
CallToolHandler(req) ==
  CASE req.name = screenshotToolName ->
         IF ParseOk(ScreenshotToolSchema, req.args)
           THEN RunScreenshotToolStart(req.args)
           ELSE Throw(ZodError, "", "validation")
    [] req.name = architectToolName ->
         IF ParseOk(ArchitectToolSchema, req.args)
           THEN RunArchitectToolStart(req.args)
           ELSE Throw(ZodError, "", "validation")
    [] req.name = codeReviewToolName ->
         IF ParseOk(CodeReviewToolSchema, req.args)
           THEN RunCodeReviewTool(req.args)
           ELSE Throw(ZodError, "", "validation")
    [] OTHER -> Throw(PlainError, "", "unknown-tool")

\* the handler registered for the request's method
Handler(req) == IF req.method = ListTools THEN ListToolsHandler(req) ELSE CallToolHandler(req)

\* the resumption of a suspended handler on the environment's answer `ok`
Finish(handler, ok) ==
  CASE handler = "runScreenshotTool" -> RunScreenshotToolFinish(ok)
    [] handler = "runArchitectTool" -> RunArchitectToolFinish(ok)
    [] OTHER -> RunCodeReviewToolFinish(ok)

(* -------------------- the Server's response envelopes ------------------ *)
\* error.code of the envelope the Server sends for a rejected handler:
\* the error's own code when it is an integer, the internal-error code otherwise
ErrorCodeOf(err) == IF err.code.kind = "number" THEN err.code.int ELSE InternalError

\* n is the ordinal of the request at the Dispatcher, cause why it failed:
\* both are history, not part of the wire message
\* hasResult / hasError: which of the members `result` and `error` the wire
\* message has; content is result.content, code is error.code
\* an envelope that keeps the first part of the content only
ResultEnvelopeFirstPart(n, id, content) ==
  [n |-> n, id |-> id, hasResult |-> TRUE, hasError |-> FALSE,
   code |-> 0, content |-> SubSeq(content, 1, 1), cause |-> ""]
ResultEnvelope(n, id, content) ==
  [n |-> n, id |-> id, hasResult |-> TRUE, hasError |-> FALSE,
   code |-> 0, content |-> content, cause |-> ""]
ErrorEnvelope(n, id, err, cause) ==
  [n |-> n, id |-> id, hasResult |-> FALSE, hasError |-> TRUE,
   code |-> ErrorCodeOf(err), content |-> << >>, cause |-> cause]

\* a response that echoes the id of the most recently received request
RespondLatestId(n, id, o) ==
  IF o.kind = "return" THEN ResultEnvelope(n, lastReq.req.id, o.content)
  ELSE ErrorEnvelope(n, lastReq.req.id, o.error, o.cause)

\* the envelope the Server sends when a handler settles with outcome `o`
Respond(n, id, o) ==
  IF o.kind = "return" THEN ResultEnvelope(n, id, o.content)
  ELSE ErrorEnvelope(n, id, o.error, o.cause)

\* a session id derived from the number of live sessions: reused after a close
MintByTableSize(n) == ToString(Cardinality(sessions) + 1)

\* randomUUID() of the n-th SSEServerTransport constructed
Mint(n) == ToString(n)

\* an HTTP exchange: the request (route, x-api-key header, sessionId query
\* parameter, body), the status answered, and what the
\* server did on the way:
\*   lookup   sessions.get was executed
\*   created  the session id registered by it ("" when none)
\*   handed   the body was passed to a request handler of the Server
\*   conn     state of the connection that minted sessionId when the request
\*            arrived: "open", "closed", or "none" when no connection minted it
\*   present  sessionId was a key of the session table when the request arrived
Exchange(route, apiKey, sessionId, body, status, lookup, created, handed, conn, present) ==
  [route |-> route, apiKey |-> apiKey, sessionId |-> sessionId, body |-> body,
   status |-> status, lookup |-> lookup, created |-> created,
   handed |-> handed, conn |-> conn, present |-> present]

\* settings of HTTP_MODE_ENABLED a deployment is built with: the shipped one,
\* and the disabled one that main() answers with its warning
ConfigSettings == {HTTP_MODE_ENABLED, ~HTTP_MODE_ENABLED}

NoExchange ==
  Exchange("", Undefined, Undefined, [kind |-> "empty", msg |-> NoRequest], 0, FALSE, "", FALSE, "none", FALSE)

\* nothing written by console.log yet
NoLine == [level |-> "", n |-> 0]

\* no target resolution examined yet
Unresolved == [done |-> FALSE, url |-> NoText, relativePath |-> NoText, finalUrl |-> NoText]

\* no architect or code-review run examined yet
NoRun == [tool |-> "", ok |-> TRUE, result |-> Suspend(""), text |-> "", envelope |-> << >>]

\* no parse examined yet
NoParse == [args |-> NoArgs, ok |-> FALSE, value |-> NoArgs, issues |-> << >>]

\* screenshotBuffer.toString('base64'): the encoding of the bytes, from which
\* the bytes can be read back
Base64(bytes) == [base64 |-> bytes]

\* no screenshot call examined yet: bytes is the content of screenshotBuffer
\* and buffer where it came from, file the content of the output file (""
\* when there is none), temp whether <outputPath>.html exists, image the data
\* of the returned image part
NoShot ==
  [args |-> NoArgs, writable |-> TRUE, launched |-> FALSE, closed |-> FALSE,
   failed |-> "", fallbacks |-> 0, wrote |-> FALSE, buffer |-> "",
   bytes |-> "", file |-> "", temp |-> FALSE, image |-> Base64(""),
   result |-> Suspend("")]

Init ==
  /\ phase = "init"
  /\ httpRequested \in BOOLEAN
  /\ httpModeEnabled \in ConfigSettings
  /\ connected = "none"
  /\ nextId = 0
  /\ conns = << >>
  /\ sessions = {}
  /\ last = NoExchange
  /\ nReq = 0
  /\ reqIds = << >>
  /\ lastReq = [n |-> 0, req |-> NoRequest, outcome |-> Suspend("")]
  /\ inflight = {}
  /\ stdout = << >>
  /\ console = NoLine
  /\ exitCode = 0
  /\ written = 0
  /\ pipe = << >>
  /\ readBuffer = << >>
  /\ scheduled = << >>
  /\ reqLines = << >>
  /\ runs = 0
  /\ pc = "idle"
  /\ shot = NoShot
  /\ unclosed = 0
  /\ parsed = NoParse
  /\ ran = NoRun
  /\ resolved = Unresolved

(* ------------------------------ logging -------------------------------- *)
\* logger.<level>(...) and the screenshot tool's log.<level>(...) while
\* request n is handled (0: at startup): error calls console.error, every
\* other level calls console.log, which writes the line to the process's
\* output stream; prev is the last line written there before
Logger(level, n, prev) ==
  IF level = "error" THEN prev ELSE [level |-> level, n |-> n]

\* the level of the last logging call a handler makes before it settles or
\* first suspends, o being its outcome there: logger.info of the listing;
\* logger.error of the default case; log.info("Launching browser...") of a
\* screenshot that passed its target check; logger.highlight of the
\* registered cases otherwise (followed only by log.error when the
\* screenshot's target check raises)
EntryLevel(req, o) ==
  CASE req.method = ListTools -> "info"
    [] o.cause = "unknown-tool" -> "error"
    [] o.kind = "suspend" /\ o.handler = "runScreenshotTool" -> "info"
    [] OTHER -> "highlight"

\* the level of the last logging call of a resumed handler: logger.success
\* after the tool returned, log.info("Saving screenshot...") before the
\* write that raised
ExitLevel(o) == IF o.kind = "return" THEN "success" ELSE "info"

(* --------------------------- process entry ----------------------------- *)
\* a selection that looks at the command line only
useHttpByArgument == httpRequested

useHttp == httpModeEnabled /\ httpRequested

\* main(): with useHttp, startHttpServer builds the placeholder transport
\* (the first SSEServerTransport of the process) and the Server connects to
\* it; otherwise the Server connects to a StdioServerTransport
Main ==
  /\ phase = "init"
  /\ exitCode = 0
  /\ phase' = "running"
  /\ IF useHttp
       THEN /\ nextId' = nextId + 1
            /\ connected' = Mint(nextId + 1)
       ELSE /\ nextId' = nextId
            /\ connected' = "stdio"
  /\ console' = Logger("rainbow", 0, console)
  /\ UNCHANGED << httpRequested, httpModeEnabled, toolVars, conns, sessions, last,
                  nReq, reqIds, lastReq, inflight, stdout, exitCode, stdinVars >>

\* main() rejects (the import of the HTTP module or server.connect fails)
\* after its first banner line: main().catch logs the error and calls
\* process.exit(1)
MainRejects ==
  /\ phase = "init"
  /\ exitCode = 0
  /\ exitCode' = 1
  /\ console' = Logger("rainbow", 0, console)
  /\ UNCHANGED << phase, httpRequested, httpModeEnabled, toolVars, connected, httpVars,
                  nReq, reqIds, lastReq, inflight, stdout, stdinVars >>

\* a handler in flight is inside execSync: the thread runs nothing else
Blocked == \E e \in inflight : e.sync

\* the event loop can take the next event: the thread is not blocked and no
\* handler invocation is queued ahead of it
Idle == ~Blocked /\ scheduled = << >>

listening == phase = "running" /\ useHttp /\ Idle

(* ---------------------------- Dispatcher ------------------------------- *)
\* transport.send(envelope) of the connected transport: the stdio transport
\* writes a line to the output stream; the placeholder transport writes to
\* its stub response object, which discards it
Send(out, env) == IF connected = "stdio" THEN Append(out, env) ELSE out

\* a Server on which the rejection of a handler ends the process
OnSettledFatal(o, code) == IF o.kind = "throw" THEN 1 ELSE code

\* what a handler's settling does to the process: a value is answered with
\* a result, a rejection is caught by the Server and answered with an error;
\* neither reaches main().catch, so the exit code stays as it is
OnSettled(o, code) == code

\* Server._onrequest: the handler runs to its first suspension point; a
\* handler that settled is answered at once, a suspended one is in flight
Dispatch(req) ==
  LET n == nReq + 1
      o == Handler(req)
  IN /\ nReq' = n
     /\ reqIds' = Append(reqIds, req.id)
     /\ lastReq' = [n |-> n, req |-> req, outcome |-> o]
     /\ console' = Logger(EntryLevel(req, o), n, console)
     /\ exitCode' = OnSettled(o, exitCode)
     /\ IF o.kind \in {"suspend", "block"}
          THEN /\ inflight' = inflight \cup {[n |-> n, id |-> req.id, handler |-> o.handler,
                                              sync |-> (o.kind = "block")]}
               /\ stdout' = stdout
          ELSE /\ inflight' = inflight
               /\ stdout' = Send(stdout, Respond(n, req.id, o))

\* transport.onmessage(message): set by Server.connect on the connected
\* transport only; on any other transport the callback is unset
OnMessage(transport, req) ==
  IF connected = transport THEN Dispatch(req) ELSE UNCHANGED dispVars

(* --------------------------- stdio transport --------------------------- *)
\* a byte of the input stream: a byte of the JSON text of line `line`, or the
\* newline that ends it
TextByte(k) == [line |-> k, nl |-> FALSE]
Newline(k) == [line |-> k, nl |-> TRUE]

\* serializeMessage: the JSON text of the k-th message followed by "\n"
Serialize(k) == << TextByte(k), Newline(k) >>

\* deserializeMessage(line): the message whose JSON text the line is; 0 when
\* the line is not the text of one message (JSON.parse throws)
Deserialize(line) == IF Len(line) = 1 /\ ~line[1].nl THEN line[1].line ELSE 0

\* a loop that takes one message from the buffer per 'data' event
ProcessReadBufferOnce(buf) ==
  LET nls == {i \in 1..Len(buf) : buf[i].nl}
  IN IF nls = {} THEN [msgs |-> << >>, rest |-> buf]
     ELSE LET idx == CHOOSE i \in nls : \A j \in nls : i <= j
          IN [msgs |-> << Deserialize(SubSeq(buf, 1, idx - 1)) >>,
              rest |-> SubSeq(buf, idx + 1, Len(buf))]

\* processReadBuffer: readMessage() takes the bytes up to the first newline
\* off the buffer, until no newline is left; each line that parses is passed
\* to onmessage, a line that does not is reported to onerror
RECURSIVE ProcessReadBuffer(_)
ProcessReadBuffer(buf) ==
  LET nls == {i \in 1..Len(buf) : buf[i].nl}
  IN IF nls = {} THEN [msgs |-> << >>, rest |-> buf]
     ELSE LET idx == CHOOSE i \in nls : \A j \in nls : i <= j
              msg == Deserialize(SubSeq(buf, 1, idx - 1))
              r == ProcessReadBuffer(SubSeq(buf, idx + 1, Len(buf)))
          IN [msgs |-> (IF msg = 0 THEN << >> ELSE << msg >>) \o r.msgs, rest |-> r.rest]

\* the client writes the next message, one line, to the input stream
ClientWrite ==
  /\ ~useHttp
  /\ written < MaxReqs
  /\ Len(pipe) + Len(Serialize(written + 1)) <= MaxPipe
  /\ written' = written + 1
  /\ pipe' = pipe \o Serialize(written + 1)
  /\ UNCHANGED << phase, httpRequested, httpModeEnabled, toolVars, connected, httpVars, dispVars,
                  readBuffer, scheduled, reqLines >>

\* the 'data' event of the input stream with the first k unread bytes: the
\* chunk is appended to the ReadBuffer and processReadBuffer runs; onmessage
\* queues the handler invocation of each message
StdinData(k) ==
  /\ phase = "running"
  /\ connected = "stdio"
  /\ Idle
  /\ k \in 1..Len(pipe)
  /\ LET chunk == SubSeq(pipe, 1, k)
         r == ProcessReadBuffer(readBuffer \o chunk)
     IN /\ pipe' = SubSeq(pipe, k + 1, Len(pipe))
        /\ readBuffer' = r.rest
        /\ scheduled' = scheduled \o r.msgs
  /\ UNCHANGED << phase, httpRequested, httpModeEnabled, toolVars, connected, httpVars, dispVars,
                  written, reqLines >>

\* the queued handler invocation of the oldest message read runs; req is the
\* request the JSON text of that line holds (a client numbers its first
\* request 1 and may reuse or advance the number afterwards)
RunHandler(req) ==
  /\ scheduled # << >>
  /\ ~Blocked
  /\ req.id <= nReq + 1
  /\ OnMessage("stdio", req)
  /\ scheduled' = Tail(scheduled)
  /\ reqLines' = Append(reqLines, Head(scheduled))
  /\ UNCHANGED << phase, httpRequested, httpModeEnabled, toolVars, connected, httpVars,
                  written, pipe, readBuffer >>

\* a handler in flight settles and the Server answers it: execSync returns
\* to the blocked thread, or the event loop resumes a suspended handler
Complete(e, ok) ==
  /\ e \in inflight
  /\ IF e.sync THEN TRUE ELSE Idle
  /\ inflight' = inflight \ {e}
  /\ stdout' = Send(stdout, Respond(e.n, e.id, Finish(e.handler, ok)))
  /\ console' = Logger(ExitLevel(Finish(e.handler, ok)), e.n, console)
  /\ exitCode' = OnSettled(Finish(e.handler, ok), exitCode)
  /\ UNCHANGED << phase, httpRequested, httpModeEnabled, toolVars, connected, httpVars,
                  nReq, reqIds, lastReq, stdinVars >>

(* --------------------------- HTTP surface ------------------------------ *)
GetHealth == "GET /health"
GetMcp == "GET /mcp"
PostMessage == "POST /mcp/message"

\* RPC requests posted over HTTP: a valid call with id 1
HttpMessages ==
  {r \in Requests : /\ r.id = 1
                    /\ r.name = codeReviewToolName
                    /\ r.args = Obj([folderPath |-> Str("x")])}

\* request bodies: none; Content-Type application/json with text that is not
\* JSON; Content-Type application/json with a well-formed RPC request
EmptyBody == [kind |-> "empty", msg |-> NoRequest]
MalformedBody == [kind |-> "malformed", msg |-> NoRequest]
RpcBody(r) == [kind |-> "rpc", msg |-> r]
GetBodies == {EmptyBody, MalformedBody}
PostBodies == GetBodies \cup {RpcBody(r) : r \in HttpMessages}

ApiKeys == {Undefined, Str(""), Str("k")}

\* values of the sessionId query parameter: absent, empty, every id the
\* server can mint, and one it never mints
QueryIds == {Undefined, Str(""), Str("nosuch")} \cup {Str(Mint(n)) : n \in 1..(MaxConns + 1)}

\* app.use(express.json()): runs before every route; a JSON body that does
\* not parse ends the request with status 400
JsonRejects(body) == body.kind = "malformed"

\* express.json() has read the request stream to its end
BodyConsumed(body) == body.kind = "rpc"

\* apiKeyMiddleware: `if (!apiKey)`
ApiKeyMissing(apiKey) == Falsy(apiKey)

\* the Map operations of the session table
Keys(table) == {e.key : e \in table}
\* a set that stores nothing
PutNothing(table, k, c) == table
Put(table, k, c) == {e \in table : e.key # k} \cup {[key |-> k, conn |-> c]}
\* a close listener that clears the table
DeleteAll(table, k) == {}
\* a close listener that leaves the entry in the table
DeleteNothing(table, k) == table
Delete(table, k) == {e \in table : e.key # k}
\* a lookup that ignores the key and returns any live transport
GetAny(table, k) == IF table = {} THEN 0 ELSE (CHOOSE e \in table : TRUE).conn
Get(table, k) == IF k \in Keys(table) THEN (CHOOSE e \in table : e.key = k).conn ELSE 0

\* an endpoint event that carries an id other than the registered one
EndpointEventUnregistered(sid) == [event |-> "endpoint", data |-> "nosuch"]

\* the event transport.start() writes first; responses would follow as
\* events named "message" whose data is the envelope
EndpointEvent(sid) == [event |-> "endpoint", data |-> sid]

\* state, when a request arrives, of the connection that minted session id k
ConnOf(k) == {c \in 1..Len(conns) : conns[c].sid = k}
ConnState(k) ==
  IF ConnOf(k) = {} THEN "none"
  ELSE IF \E c \in ConnOf(k) : conns[c].open THEN "open" ELSE "closed"

\* an exchange that ends before its route handler runs
Rejected(route, apiKey, sessionId, body, status) ==
  /\ last' = Exchange(route, apiKey, sessionId, body, status, FALSE, "", FALSE,
                      ConnState(sessionId.val), sessionId.val \in Keys(sessions))
  /\ UNCHANGED << nextId, conns, sessions, dispVars >>

\* GET /health
Health(apiKey, body) ==
  /\ listening
  /\ IF JsonRejects(body)
       THEN Rejected(GetHealth, apiKey, Undefined, body, 400)
       ELSE Rejected(GetHealth, apiKey, Undefined, body, 200)
  /\ UNCHANGED << phase, httpRequested, httpModeEnabled, toolVars, connected, stdinVars >>

\* GET /mcp: a new SSEServerTransport is built (minting its session id),
\* stored under that id, the close listener is registered, and start()
\* writes the endpoint event
OpenSession(apiKey, body) ==
  /\ listening
  /\ IF JsonRejects(body) THEN Rejected(GetMcp, apiKey, Undefined, body, 400)
     ELSE IF ApiKeyMissing(apiKey) THEN Rejected(GetMcp, apiKey, Undefined, body, 401)
     ELSE LET sid == Mint(nextId + 1)
              c == Len(conns) + 1
          IN /\ Len(conns) < MaxConns
             /\ nextId' = nextId + 1
             /\ sessions' = Put(sessions, sid, c)
             /\ conns' = Append(conns, [sid |-> sid, open |-> TRUE, sse |-> TRUE,
                                        stream |-> << EndpointEvent(sid) >>,
                                        posted |-> {}])
             /\ last' = Exchange(GetMcp, apiKey, Undefined, body, 200, FALSE, sid, FALSE, "none", FALSE)
             /\ UNCHANGED dispVars
  /\ UNCHANGED << phase, httpRequested, httpModeEnabled, toolVars, connected, stdinVars >>

\* the 'close' event of connection c: the listener of GET /mcp deletes the
\* session, the transport's own listener drops its stream
CloseSession(c) ==
  /\ c \in 1..Len(conns)
  /\ conns[c].open
  /\ sessions' = Delete(sessions, conns[c].sid)
  /\ conns' = [conns EXCEPT ![c].open = FALSE, ![c].sse = FALSE]
  /\ Idle
  /\ UNCHANGED << phase, httpRequested, httpModeEnabled, toolVars, connected, nextId, last, dispVars, stdinVars >>

\* transport.handlePostMessage(req, res), called without the parsed body:
\* the transport reads the request stream itself, which fails when the
\* stream was already consumed, and requires a JSON body
HandlePostStatus(c, body) ==
  IF ~conns[c].sse THEN 500
  ELSE IF BodyConsumed(body) THEN 400
  ELSE IF body.kind = "empty" THEN 400
  ELSE 202

\* POST /mcp/message?sessionId=...
PostCommand(apiKey, sessionId, body) ==
  /\ listening
  /\ IF JsonRejects(body) THEN Rejected(PostMessage, apiKey, sessionId, body, 400)
     ELSE IF ApiKeyMissing(apiKey) THEN Rejected(PostMessage, apiKey, sessionId, body, 401)
     ELSE IF Falsy(sessionId) THEN Rejected(PostMessage, apiKey, sessionId, body, 400)
     ELSE LET c == Get(sessions, sessionId.val)
          IN IF c = 0
               THEN /\ last' = Exchange(PostMessage, apiKey, sessionId, body, 404,
                                        TRUE, "", FALSE, ConnState(sessionId.val),
                                        sessionId.val \in Keys(sessions))
                    /\ UNCHANGED << nextId, conns, sessions, dispVars >>
               ELSE LET status == HandlePostStatus(c, body)
                        deliver == status = 202
                        handed == deliver /\ connected = conns[c].sid
                    IN /\ last' = Exchange(PostMessage, apiKey, sessionId, body, status,
                                           TRUE, "", handed, ConnState(sessionId.val),
                                           sessionId.val \in Keys(sessions))
                       /\ conns' = [conns EXCEPT ![c].posted =
                                      IF body.kind = "rpc" THEN @ \cup {body.msg} ELSE @]
                       /\ IF deliver THEN OnMessage(conns[c].sid, body.msg) ELSE UNCHANGED dispVars
                       /\ UNCHANGED << nextId, sessions >>
  /\ UNCHANGED << phase, httpRequested, httpModeEnabled, toolVars, connected, stdinVars >>

Next ==
  \/ Main
  \/ MainRejects
  \/ ClientWrite
  \/ \E k \in 1..MaxPipe : StdinData(k)
  \/ \E req \in Requests : RunHandler(req)
  \/ \E e \in inflight, ok \in BOOLEAN : Complete(e, ok)
  \/ \E apiKey \in ApiKeys, body \in GetBodies : Health(apiKey, body)
  \/ \E apiKey \in ApiKeys, body \in GetBodies : OpenSession(apiKey, body)
  \/ \E c \in 1..MaxConns : CloseSession(c)
  \/ \E apiKey \in ApiKeys, sessionId \in QueryIds, body \in PostBodies :
        PostCommand(apiKey, sessionId, body)

Spec == Init /\ [][Next]_vars

(* ---------------------- the tools in isolation -------------------------- *)
\* arguments runScreenshotTool can be called with: those the schema accepts
ValidScreenshotArgs == {a \in ScreenshotArgs : ParseOk(ScreenshotToolSchema, a)}

\* the awaited steps of the browser path, in program order
BrowserPath == << "launch", "newPage", "goto", "screenshot", "close" >>

StepAfter(step) ==
  CASE step = "launch" -> "newPage"
    [] step = "newPage" -> "goto"
    [] step = "goto" -> "screenshot"
    [] step = "screenshot" -> "close"
    [] OTHER -> "save"

\* runScreenshotTool is called: the target check runs, then the browser path
\* starts; writable says whether the output path can be written; a run
\* examines one tool
ShotCall(args, writable) ==
  /\ pc \in {"idle", "returned", "raised"}
  /\ parsed = NoParse
  /\ ran = NoRun
  /\ resolved = Unresolved
  /\ runs < MaxRuns
  /\ runs' = runs + 1
  /\ LET o == RunScreenshotToolStart(args)
     IN /\ shot' = [NoShot EXCEPT !.args = args, !.writable = writable, !.result = o]
        /\ pc' = IF o.kind = "throw" THEN "raised" ELSE "launch"
  /\ UNCHANGED << serverVars, unclosed, parsed, ran, resolved >>

\* one awaited step of the try block settles: puppeteer.launch, newPage (and
\* setBypassCSP), goto, screenshot, browser.close; a rejection of any of them
\* enters the catch block; gone says whether a close that rejected has still
\* ended the browser
BrowserStep(ok, gone) ==
  /\ pc \in {BrowserPath[i] : i \in 1..Len(BrowserPath)}
  /\ IF ok
       THEN /\ pc' = StepAfter(pc)
            /\ shot' = [shot EXCEPT !.launched = (@ \/ pc = "launch"),
                                    !.closed = (@ \/ pc = "close"),
                                    !.buffer = (IF pc = "screenshot" THEN "png" ELSE @),
                                    !.bytes = (IF pc = "screenshot" THEN "png" ELSE @)]
            /\ unclosed' = CASE pc = "launch" -> unclosed + 1
                              [] pc = "close" -> unclosed - 1
                              [] OTHER -> unclosed
       ELSE /\ pc' = "fallback"
            /\ shot' = [shot EXCEPT !.failed = pc,
                                    !.closed = (pc = "close" /\ gone)]
            /\ unclosed' = IF pc = "close" /\ gone THEN unclosed - 1 ELSE unclosed
  /\ UNCHANGED << serverVars, runs, parsed, ran, resolved >>

\* the operation of the fallback's try block the environment lets fail,
\* besides the conversion: none, the write of the temporary page, its
\* removal, the read of the output file
FallbackFailures == {"none", "writeTemp", "unlink", "read"}

\* the try block of takeScreenshotWithCurl: the temporary page is written;
\* wkhtmltoimage converts it to the output path, or (converter absent or
\* failing) a placeholder text is written there; the page is removed; the
\* output file is read back. converts: the converter is there and works;
\* writable: the output path can be written; file: the output file before.
\* Gives whether the block completed, whether the temporary page is left,
\* and the output file afterwards.
FallbackTry(converts, fail, writable, file) ==
  IF fail = "writeTemp" THEN [ok |-> FALSE, temp |-> FALSE, file |-> file]
  ELSE IF ~writable THEN [ok |-> FALSE, temp |-> TRUE, file |-> file]
  ELSE LET out == IF converts THEN "wkhtmltoimage" ELSE "placeholder"
       IN CASE fail = "unlink" -> [ok |-> FALSE, temp |-> TRUE, file |-> out]
            [] fail = "read" -> [ok |-> FALSE, temp |-> FALSE, file |-> out]
            [] OTHER -> [ok |-> TRUE, temp |-> FALSE, file |-> out]

\* a fallback whose try block has no catch: its failure is raised
TakeScreenshotWithCurlUncaught(converts, fail) ==
  /\ pc = "fallback"
  /\ LET t == FallbackTry(converts, fail, shot.writable, shot.file)
     IN IF t.ok
          THEN /\ pc' = "save"
               /\ shot' = [shot EXCEPT !.fallbacks = @ + 1, !.wrote = TRUE, !.buffer = "file",
                                       !.bytes = t.file, !.file = t.file, !.temp = t.temp]
          ELSE /\ pc' = "raised"
               /\ shot' = [shot EXCEPT !.fallbacks = @ + 1, !.file = t.file, !.temp = t.temp,
                                       !.result = RunScreenshotToolFinish(FALSE)]
  /\ UNCHANGED << serverVars, runs, unclosed, parsed, ran, resolved >>

\* takeScreenshotWithCurl: the try block either completes, returning the
\* bytes read from the output file, or its failure is caught, a text is
\* written to the output path and returned; that last write is not guarded
TakeScreenshotWithCurl(converts, fail) ==
  /\ pc = "fallback"
  /\ LET t == FallbackTry(converts, fail, shot.writable, shot.file)
     IN IF t.ok
          THEN /\ pc' = "save"
               /\ shot' = [shot EXCEPT !.fallbacks = @ + 1, !.wrote = TRUE, !.buffer = "file",
                                       !.bytes = t.file, !.file = t.file, !.temp = t.temp]
          ELSE IF shot.writable
            THEN /\ pc' = "save"
                 /\ shot' = [shot EXCEPT !.fallbacks = @ + 1, !.wrote = TRUE, !.buffer = "text",
                                         !.bytes = "fallbackText", !.file = "fallbackText",
                                         !.temp = t.temp]
            ELSE /\ pc' = "raised"
                 /\ shot' = [shot EXCEPT !.fallbacks = @ + 1, !.file = t.file, !.temp = t.temp,
                                         !.result = RunScreenshotToolFinish(FALSE)]
  /\ UNCHANGED << serverVars, runs, unclosed, parsed, ran, resolved >>

\* a return that leaves the output file as the capture step left it
SaveScreenshotNoWrite ==
  /\ pc = "save"
  /\ LET o == RunScreenshotToolFinish(shot.writable)
     IN /\ shot' = [shot EXCEPT !.result = o,
                                !.image = (IF shot.writable THEN Base64(shot.bytes) ELSE @)]
        /\ pc' = IF o.kind = "throw" THEN "raised" ELSE "returned"
  /\ UNCHANGED << serverVars, runs, unclosed, parsed, ran, resolved >>

\* runScreenshotTool from `writeFile(fullPathToScreenshot, screenshotBuffer)`
\* to its return: the buffer is written to the output file and its base64
\* encoding is the data of the image part
SaveScreenshot ==
  /\ pc = "save"
  /\ LET o == RunScreenshotToolFinish(shot.writable)
     IN /\ shot' = [shot EXCEPT !.result = o, !.wrote = (@ \/ shot.writable),
                                !.file = (IF shot.writable THEN shot.bytes ELSE @),
                                !.image = (IF shot.writable THEN Base64(shot.bytes) ELSE @)]
        /\ pc' = IF o.kind = "throw" THEN "raised" ELSE "returned"
  /\ UNCHANGED << serverVars, runs, unclosed, parsed, ran, resolved >>

\* APITestGeneratorSchema.parse applied to the arguments of a call; a run
\* examines one tool
ApiTestsParse(args) ==
  /\ pc = "idle"
  /\ shot = NoShot
  /\ ran = NoRun
  /\ resolved = Unresolved
  /\ runs < MaxRuns
  /\ runs' = runs + 1
  /\ parsed' = ZodParse(APITestGeneratorSchema, args)
  /\ UNCHANGED << serverVars, pc, shot, unclosed, ran, resolved >>

\* runArchitectTool or runCodeReviewTool called with validated arguments,
\* taken to its return; ok is the outcome of the external call (the chat
\* completion request, the git command); the Server answers with the
\* envelope of what the handler did
RunTool(req, ok) ==
  /\ pc = "idle"
  /\ shot = NoShot
  /\ parsed = NoParse
  /\ resolved = Unresolved
  /\ runs < MaxRuns
  /\ req.method = CallTool
  /\ req.name \in {architectToolName, codeReviewToolName}
  /\ req.id = 1
  /\ LET entry == CallToolHandler(req)
         o == Finish(entry.handler, ok)
     IN /\ entry.kind \in {"suspend", "block"}
        /\ ran' = [tool |-> req.name, ok |-> ok, result |-> o,
                   text |-> (IF req.name = architectToolName
                               THEN ArchitectText(ok) ELSE CodeReviewText(ok)),
                   envelope |-> << Respond(runs + 1, req.id, o) >>]
  /\ runs' = runs + 1
  /\ UNCHANGED << serverVars, pc, shot, unclosed, parsed, resolved >>

\* the first statements of runScreenshotTool applied to url and relativePath
ResolveTarget(url, relativePath) ==
  /\ pc = "idle"
  /\ shot = NoShot
  /\ parsed = NoParse
  /\ ran = NoRun
  /\ runs < MaxRuns
  /\ runs' = runs + 1
  /\ resolved' = [done |-> TRUE, url |-> url, relativePath |-> relativePath,
                  finalUrl |-> FinalUrl(url, relativePath)]
  /\ UNCHANGED << serverVars, pc, shot, unclosed, parsed, ran >>

ToolNext ==
  \/ \E url \in Urls, relativePath \in RelativePaths : ResolveTarget(url, relativePath)
  \/ \E req \in CallRequests, ok \in BOOLEAN : RunTool(req, ok)
  \/ \E args \in ApiTestsArgs : ApiTestsParse(args)
  \/ \E args \in ValidScreenshotArgs, writable \in BOOLEAN : ShotCall(args, writable)
  \/ \E ok \in BOOLEAN, gone \in BOOLEAN : BrowserStep(ok, gone)
  \/ \E converts \in BOOLEAN, fail \in FallbackFailures : TakeScreenshotWithCurl(converts, fail)
  \/ SaveScreenshot

ToolSpec == Init /\ [][ToolNext]_vars

(* ======================= properties of the server ======================= *)
Credentialed(x) == ~ApiKeyMissing(x.apiKey)
IsPost(x) == x.route = PostMessage
Gated(x) == x.route \in {GetMcp, PostMessage}

(* ------------------------------- C1 ------------------------------------ *)
\* C1 as stated: a credentialed POST naming a session id minted by GET /mcp
\* is never answered 404 while that connection is open, and is answered 404
\* whenever it arrives after that connection's close event.
C1_SessionLifecycleAsStated ==
  (IsPost(last) /\ Credentialed(last)) =>
     /\ (last.conn = "open" => last.status # 404)
     /\ (last.conn = "closed" => last.status = 404)

\* C1 (amended): a credentialed POST naming a session id minted by GET /mcp is
\* never answered 404 while that connection is open; after the connection's
\* close event it is answered 404 when its body passes the JSON body parser
\* and 400 when the body is malformed JSON, and is never handed on.
C1_SessionLifecycle ==
  (IsPost(last) /\ Credentialed(last)) =>
     /\ (last.conn = "open" => last.status # 404)
     /\ (last.conn = "closed" =>
           /\ last.status = (IF JsonRejects(last.body) THEN 400 ELSE 404)
           /\ ~last.handed)

\* a POST answered 404 for a closed session while a later session is open
C1_Witness ==
  /\ IsPost(last) /\ Credentialed(last)
  /\ last.conn = "closed" /\ last.status = 404
  /\ \E c \in 1..Len(conns) : conns[c].open /\ conns[c].posted # {}

(* ------------------------------- C2 ------------------------------------ *)
MessageIds(stream) ==
  {stream[i].data.id : i \in {j \in 1..Len(stream) : stream[j].event = "message"}}

\* C2: every credentialed POST carrying a well-formed RPC request for a
\* session present in the table is handed to the Dispatcher, and once no
\* handler is in flight its response is on that (still open) session's stream.
C2_CommandDelivery ==
  /\ (IsPost(last) /\ Credentialed(last) /\ last.body.kind = "rpc" /\ last.present)
        => last.handed
  /\ \A c \in 1..Len(conns) :
        (conns[c].open /\ inflight = {}) =>
           {m.id : m \in conns[c].posted} \subseteq MessageIds(conns[c].stream)

(* ------------------------------- C3 ------------------------------------ *)
\* C3: a GET /mcp or POST /mcp/message without an x-api-key header is answered
\* 401, creates no session, performs no session lookup and reaches no handler;
\* any non-empty header value passes the gate.
C3_AuthGate ==
  Gated(last) =>
     /\ (last.apiKey = Undefined =>
           /\ last.status = 401
           /\ ~last.lookup /\ last.created = "" /\ ~last.handed)
     /\ ((last.apiKey.kind = "string" /\ last.apiKey.val # "") => last.status # 401)

(* ------------------------------- C4 ------------------------------------ *)
\* C4 as stated: a credentialed POST whose sessionId is not a key of the
\* session table is answered 404 and reaches no handler.
C4_UnknownSessionAsStated ==
  (IsPost(last) /\ Credentialed(last) /\ ~last.present) =>
     (last.status = 404 /\ ~last.handed)

\* the answer to a credentialed POST for a sessionId that is no key
C4_UnknownSessionState ==
  (IsPost(last) /\ Credentialed(last) /\ ~last.present) =>
     /\ last.status = (IF JsonRejects(last.body) \/ Falsy(last.sessionId) THEN 400 ELSE 404)
     /\ ~last.handed
     /\ last.created = ""

\* what such a POST leaves unchanged
C4_UnknownSessionStep ==
  (last' # last /\ IsPost(last') /\ Credentialed(last') /\ ~last'.present) =>
     (sessions' = sessions /\ UNCHANGED dispVars)

\* C4 (amended): a credentialed POST whose sessionId is not a key of the
\* session table is answered 404 when the sessionId is non-empty and the body
\* passes the JSON body parser, and 400 otherwise (sessionId absent or empty,
\* or malformed JSON body); in every case the Dispatcher and the tool handlers
\* are not invoked and the session table is unchanged.
C4_UnknownSession == []C4_UnknownSessionState /\ [][C4_UnknownSessionStep]_vars

\* a POST for an id that is no key, answered 404, while another session is open
C4_Witness ==
  /\ IsPost(last) /\ Credentialed(last) /\ ~last.present
  /\ last.status = 404 /\ last.conn = "none"
  /\ sessions # {}

(* ------------------------------- C5 ------------------------------------ *)
\* ids are pairwise distinct; endpoint event and table key agree
C5_SessionOpenState ==
  /\ \A c, d \in 1..Len(conns) : conns[c].sid = conns[d].sid => c = d
  /\ \A e \in sessions : Head(conns[e.conn].stream) = EndpointEvent(e.key)
  /\ \A c \in 1..Len(conns) :
        conns[c].open => [key |-> Head(conns[c].stream).data, conn |-> c] \in sessions

\* what accepting a connection does to the table
C5_SessionOpenStep ==
  (Len(conns') = Len(conns) + 1) =>
     LET new == conns'[Len(conns')]
     IN /\ new.sid \notin Keys(sessions)
        /\ \A c \in 1..Len(conns) : conns[c].sid # new.sid
        /\ sessions' = sessions \cup {[key |-> new.sid, conn |-> Len(conns')]}
        /\ Cardinality(sessions') = Cardinality(sessions) + 1
        /\ last'.created = new.sid

\* C5: each accepted GET /mcp adds exactly one table entry, under an id no
\* session of this server ever had; no two sessions share an id; the endpoint
\* event of a connection carries the id its transport is registered under.
C5_SessionOpen == []C5_SessionOpenState /\ [][C5_SessionOpenStep]_vars

\* a second session opened after the first one closed
C5_Witness ==
  /\ Len(conns) >= 2
  /\ ~conns[1].open
  /\ conns[2].open
  /\ Cardinality(sessions) = 1

(* ------------------------------- C6 ------------------------------------ *)
CallOne == [method |-> CallTool, id |-> 1, name |-> codeReviewToolName,
            args |-> Obj([folderPath |-> Str("x")])]

MessagesWithId(stream, id) ==
  {i \in 1..Len(stream) : stream[i].event = "message" /\ stream[i].data.id = id}

\* C6: when two open sessions have each posted a callTool request with the
\* same RPC id and no handler is in flight any more, each session's stream
\* holds exactly one response with that id, and it is a result.
C6_CrossSessionIsolation ==
  \A c, d \in 1..Len(conns) :
     (/\ c # d
      /\ conns[c].open /\ conns[d].open
      /\ conns[c].posted = {CallOne} /\ conns[d].posted = {CallOne}
      /\ inflight = {})
     => \A x \in {c, d} :
          /\ Cardinality(MessagesWithId(conns[x].stream, 1)) = 1
          /\ \A i \in MessagesWithId(conns[x].stream, 1) : conns[x].stream[i].data.hasResult

(* ------------------------------- C7 ------------------------------------ *)
EnvelopesOf(n) == {i \in 1..Len(stdout) : stdout[i].n = n}

\* C7: every dispatched request has exactly one response envelope once its
\* handler has settled (none before), the envelope carries the request's id,
\* and exactly one of result / error is present in it.
C7_IdCorrelation ==
  \A n \in 1..nReq :
     IF \E e \in inflight : e.n = n
       THEN EnvelopesOf(n) = {}
       ELSE /\ Cardinality(EnvelopesOf(n)) = 1
            /\ \A i \in EnvelopesOf(n) :
                  /\ stdout[i].id = reqIds[n]
                  /\ stdout[i].hasResult # stdout[i].hasError

\* two requests with different ids answered in the opposite order, one with
\* an error and one with a result
C7_Witness ==
  /\ nReq = 2 /\ Len(stdout) = 2 /\ inflight = {}
  /\ reqIds[1] # reqIds[2]
  /\ stdout[1].n = 2 /\ stdout[2].n = 1
  /\ stdout[1].hasResult /\ stdout[2].hasError

(* ------------------------------- C8 ------------------------------------ *)
Registered(name) == name \in {screenshotToolName, architectToolName, codeReviewToolName}

SchemaOf(name) ==
  CASE name = screenshotToolName -> ScreenshotToolSchema
    [] name = architectToolName -> ArchitectToolSchema
    [] OTHER -> CodeReviewToolSchema

\* C8: a callTool request naming a registered tool with arguments that violate
\* the tool's schema is answered with an error envelope whose code is the
\* invalid-params code, and no tool handler is entered for it.
C8_InvalidParams ==
  (/\ lastReq.req.method = CallTool
   /\ Registered(lastReq.req.name)
   /\ ~ParseOk(SchemaOf(lastReq.req.name), lastReq.req.args))
  => /\ \E i \in EnvelopesOf(lastReq.n) : stdout[i].hasError /\ stdout[i].code = InvalidParams
     /\ lastReq.outcome.handler = ""

(* ------------------------------- C9 ------------------------------------ *)
\* C9: a callTool request whose name is not a registered tool name is answered
\* with an error envelope whose code is the tool-not-found code, which is
\* neither the internal-error nor the invalid-params code, and no tool
\* handler is entered for it.
C9_UnknownTool ==
  (lastReq.req.method = CallTool /\ ~Registered(lastReq.req.name))
  => /\ \E i \in EnvelopesOf(lastReq.n) :
          /\ stdout[i].hasError
          /\ stdout[i].code = MethodNotFound
          /\ stdout[i].code \notin {InternalError, InvalidParams}
     /\ lastReq.outcome.handler = ""

(* ------------------------------- C10 ----------------------------------- *)
HandlerRaised(env) == env.cause = "handler"

\* the envelope of a raise, and the answer to a request received after it
C10_FailureContainmentState ==
  /\ phase \in {"init", "running"}
  /\ (lastReq.outcome.kind = "throw" /\ lastReq.outcome.cause = "handler")
        => Cardinality(EnvelopesOf(lastReq.n)) = 1
  /\ \A i \in 1..Len(stdout) :
        HandlerRaised(stdout[i]) =>
           /\ stdout[i].hasError /\ ~stdout[i].hasResult
           /\ stdout[i].code = InternalError
           /\ EnvelopesOf(stdout[i].n) = {i}
  /\ (/\ \E i \in 1..Len(stdout) : HandlerRaised(stdout[i]) /\ stdout[i].n < lastReq.n
      /\ lastReq.outcome.kind \in {"return", "throw"})
        => \E j \in 1..Len(stdout) :
              stdout[j] = Respond(lastReq.n, lastReq.req.id, Handler(lastReq.req))

\* what the step that answers a raise leaves alone
C10_FailureContainmentStep ==
  (Len(stdout') > Len(stdout) /\ HandlerRaised(stdout'[Len(stdout')])) =>
     /\ stdout' = Append(stdout, stdout'[Len(stdout')])
     /\ phase' = "running"
     /\ sessions' = sessions
     /\ {e \in inflight : e.n # stdout'[Len(stdout')].n} \subseteq inflight'

C11_ListTools ==
  (lastReq.req.method = ListTools) =>
     /\ lastReq.outcome.kind = "return"
     /\ lastReq.outcome.content =
           << screenshotToolName, architectToolName, codeReviewToolName >>
     /\ \E i \in EnvelopesOf(lastReq.n) :
           /\ stdout[i].hasResult
           /\ stdout[i].content = lastReq.outcome.content

\* a listTools request with params answered while an earlier callTool is in flight
C11_Witness ==
  /\ lastReq.n = 2 /\ lastReq.req.method = ListTools
  /\ lastReq.req.args # NoArgs
  /\ inflight # {}
  /\ \E i \in EnvelopesOf(2) : Len(stdout[i].content) = 3

(* ------------------------------- C12 ----------------------------------- *)
\* the fields a zod schema makes required
RequiredBy(schema) == {schema[i].name : i \in {j \in 1..Len(schema) : ~schema[j].optional}}

ListedAs(name) == ListedTools[CHOOSE i \in 1..Len(ListedTools) : ListedTools[i].name = name]

\* args is an object with every field listed as required present and every
\* listed property, when present, a string
SatisfiesAdvertised(tool, args) ==
  /\ args.kind = "object"
  /\ \A f \in tool.required : args.fields[f].kind # "undefined"
  /\ \A f \in tool.properties : args.fields[f].kind \in {"undefined", "string"}

\* C12: for every registered tool the fields listTools lists as required are
\* the fields the callTool schema requires, and a callTool whose arguments
\* satisfy the advertised schema passes validation.
C12_AdvertisedIsEnforced ==
  /\ (lastReq.req.method = ListTools) =>
        \A i \in 1..Len(lastReq.outcome.content) :
           ListedAs(lastReq.outcome.content[i]).required
             = RequiredBy(SchemaOf(lastReq.outcome.content[i]))
  /\ (/\ lastReq.req.method = CallTool
      /\ Registered(lastReq.req.name)
      /\ SatisfiesAdvertised(ListedAs(lastReq.req.name), lastReq.req.args))
     => lastReq.outcome.cause # "validation"

(* ------------------------------- C13 ----------------------------------- *)
\* the tool names of the example calls in the README and the tool guides
DocumentedNames == {"screenshot", "architect", "codeReview"}

\* C13: a callTool request naming a tool by a documented name is resolved to
\* a tool (its arguments are validated against that tool's schema) and is not
\* rejected as an unknown tool.
C13_DocumentedNames ==
  (lastReq.req.method = CallTool /\ lastReq.req.name \in DocumentedNames)
  => lastReq.outcome.cause # "unknown-tool"

(* ------------------------------- C14 ----------------------------------- *)
IsSse(transport) == transport \notin {"none", "stdio"}

\* the transport the running server is connected to
C14_TransportSelectionState ==
  IF phase = "init" THEN connected = "none"
  ELSE /\ connected # "none"
       /\ IsSse(connected) <=> (httpModeEnabled /\ httpRequested)
       /\ (~IsSse(connected)) <=> (connected = "stdio")

\* the server connects once
C14_TransportSelectionStep == (connected # "none") => (connected' = connected)

\* C14: once started the server is connected to exactly one transport, chosen
\* at startup and never changed: an HTTP/SSE transport if and only if HTTP
\* mode is enabled and --http was given, the stdio transport otherwise.
C14_TransportSelection ==
  []C14_TransportSelectionState /\ [][C14_TransportSelectionStep]_vars

\* --http given with HTTP mode disabled: the server serves a request on stdio
C14_Witness ==
  /\ phase = "running" /\ httpRequested /\ ~httpModeEnabled
  /\ connected = "stdio" /\ nReq > 0 /\ Len(stdout) > 0

(* ------------------------------- C15 ----------------------------------- *)
\* a complete line is waiting in the input pipe
LineWaiting == \E i \in 1..Len(pipe) : pipe[i].nl

\* C15: while a callTool handler is in flight and no handler invocation is
\* queued ahead, the server can take the next event: it can read a request
\* line waiting on its input, and when it listens on HTTP it can accept a new
\* session and answer a POST.
C15_NonBlockingDispatch ==
  (inflight # {} /\ scheduled = << >>) =>
     /\ LineWaiting => ENABLED (\E k \in 1..MaxPipe : StdinData(k))
     /\ (phase = "running" /\ useHttp) =>
           /\ (Len(conns) < MaxConns) => ENABLED OpenSession(Str("k"), EmptyBody)
           /\ ENABLED PostCommand(Str("k"), Str("nosuch"), EmptyBody)

(* ------------------------------- C16 ----------------------------------- *)
\* C16: on the stdio transport the responses are written in the order in
\* which their requests arrived on the input stream.
C16_StdioOrdering ==
  (connected = "stdio") =>
     \A i, j \in 1..Len(stdout) :
        (i < j) => reqLines[stdout[i].n] < reqLines[stdout[j].n]

(* ------------------------------- C17 ----------------------------------- *)
\* the lines whose newline the server has read
LinesRead == {k \in 1..written : \A i \in 1..Len(pipe) : pipe[i] # Newline(k)}

\* the lines whose text the server has read
TextsRead == {k \in 1..written : \A i \in 1..Len(pipe) : pipe[i] # TextByte(k)}

\* the lines handed to onmessage so far, in the order they were handed
Dispatched == reqLines \o scheduled

\* C17: however the input bytes are split into reads, the messages handed to
\* the Dispatcher are exactly the lines whose newline has been read, each
\* once and in arrival order; the text of a line whose newline has not been
\* read is held in the buffer and not dispatched.
C17_StdioFraming ==
  /\ Len(Dispatched) = Cardinality(LinesRead)
  /\ \A i \in 1..Len(Dispatched) : Dispatched[i] = i
  /\ \A k \in TextsRead \ LinesRead : readBuffer = << TextByte(k) >>
  /\ (TextsRead = LinesRead) => readBuffer = << >>

\* one read completed line 1 and ended inside line 2: line 1 is dispatched,
\* the text of line 2 waits in the buffer
C17_Witness ==
  /\ scheduled = << 1 >> /\ reqLines = << >>
  /\ readBuffer = << TextByte(2) >>
  /\ pipe = << Newline(2) >>

(* ------------------------------- C18 ----------------------------------- *)
\* C18 is about a connection that closes while a handler started for its
\* session is running. When the server listens on HTTP no handler is ever
\* started, whatever was posted to a session before it closed: the case the
\* claim describes is not a state of this server.
NoHandlerOverHttp ==
  useHttp => (nReq = 0 /\ inflight = {} /\ stdout = << >>)

\* a session closed after a callTool was posted to it
ClosedAfterCall ==
  \E c \in 1..Len(conns) : ~conns[c].open /\ CallOne \in conns[c].posted

(* ------------------------------- C19 ----------------------------------- *)
\* C19: a POST /mcp/message is answered 401 when the credential is missing,
\* whatever its sessionId; else 400 when the sessionId is absent or empty;
\* else 404 when the sessionId is no key of the session table; and 202 only
\* in the remaining case and only when the body is a well-formed RPC message.
C19_StatusPrecedence ==
  IsPost(last) =>
     IF ApiKeyMissing(last.apiKey) THEN last.status = 401
     ELSE IF Falsy(last.sessionId) THEN last.status = 400
     ELSE IF ~last.present THEN last.status = 404
     ELSE (last.status = 202) => (last.body.kind = "rpc")

(* ------------------------------- C20 ----------------------------------- *)
\* the fields of the schema that the arguments violate
Violating(schema, args) ==
  {i \in 1..Len(schema) : FieldIssue(schema[i], args.fields[schema[i].name]) # "ok"}

\* C20: a callTool whose arguments fail validation gets the outcome that
\* validating the same request again gives, and the failure reported is the
\* single issue of the first violating field in declaration order, with that
\* field's path.
C20_ValidationFailFast ==
  (/\ lastReq.req.method = CallTool
   /\ Registered(lastReq.req.name)
   /\ lastReq.req.args.kind = "object"
   /\ lastReq.outcome.cause = "validation")
  => LET schema == SchemaOf(lastReq.req.name)
         reported == Issues(schema, lastReq.req.args)
         first == CHOOSE i \in Violating(schema, lastReq.req.args) :
                     \A j \in Violating(schema, lastReq.req.args) : i <= j
     IN /\ lastReq.outcome = CallToolHandler(lastReq.req)
        /\ Len(reported) = 1
        /\ reported[1].path = schema[first].name

(* ------------------------------- C21 ----------------------------------- *)
NoTarget(args) == Falsy(args.fields["url"]) /\ Falsy(args.fields["relativePath"])

\* C21: a screenshot call with neither url nor relativePath (absent or empty)
\* raises an error without launching a browser, running the fallback or
\* writing a file; a call with at least one of them does not raise that error.
C21_ScreenshotTarget ==
  (pc # "idle") =>
     IF NoTarget(shot.args)
       THEN /\ pc = "raised"
            /\ shot.result.kind = "throw" /\ shot.result.error = PlainError
            /\ ~shot.launched /\ shot.fallbacks = 0 /\ ~shot.wrote
       ELSE shot.result.error # PlainError

\* the second call examined has both targets given as empty strings and raised
C21_Witness ==
  /\ runs = 2 /\ pc = "raised"
  /\ shot.args.fields["url"] = Str("") /\ shot.args.fields["relativePath"] = Str("")
  /\ ~shot.launched /\ ~shot.wrote

(* ------------------------------- C22 ----------------------------------- *)
\* C22: every return of the screenshot handler, with the image taken by the
\* browser or produced by the fallback, has a content of exactly two parts,
\* the text part then the image part, and the response envelope built from
\* it carries the same two parts in the same order.
C22_ScreenshotResultShape ==
  (pc = "returned") =>
     /\ shot.result.kind = "return"
     /\ shot.result.content = << "text", "image" >>
     /\ shot.buffer \in {"png", "file", "text"}
     /\ LET env == Respond(runs, 1, shot.result)
        IN /\ env.hasResult /\ ~env.hasError
           /\ env.content = << "text", "image" >>

\* a call returned after navigation failed and the fallback produced the image
C22_Witness ==
  /\ pc = "returned"
  /\ shot.failed = "goto" /\ shot.fallbacks = 1 /\ shot.buffer = "file"
  /\ Len(shot.result.content) = 2

(* ------------------------------- C23 ----------------------------------- *)
\* the fields of the schema that declare a default
Defaulted(schema) == {i \in 1..Len(schema) : schema[i].default # NoDefault}

\* C23: when APITestGeneratorSchema validates an argument object, a field
\* with a declared default that is absent carries the default in the
\* validated value (framework jest, outputFormat javascript, contextType
\* file); a present value outside the field's enum makes validation fail; a
\* present value inside it is kept.
C23_DefaultsAndEnums ==
  (parsed.args.kind = "object") =>
     /\ {APITestGeneratorSchema[i].name : i \in Defaulted(APITestGeneratorSchema)}
           = {"framework", "outputFormat", "contextType"}
     /\ \A i \in Defaulted(APITestGeneratorSchema) :
           LET f == APITestGeneratorSchema[i]
               given == parsed.args.fields[f.name]
           IN /\ (given.kind = "undefined" /\ parsed.ok) =>
                    parsed.value.fields[f.name] =
                       (CASE f.name = "framework" -> Str("jest")
                          [] f.name = "outputFormat" -> Str("javascript")
                          [] OTHER -> Str("file"))
              /\ (given.kind # "undefined" /\ (given.kind # "string" \/ given.val \notin f.enum))
                    => ~parsed.ok
              /\ (given.kind # "undefined" /\ parsed.ok) =>
                    parsed.value.fields[f.name] = given

\* a parse that filled in two defaults and kept a given outputFormat
C23_Witness ==
  /\ parsed.ok
  /\ parsed.args.fields["framework"] = Undefined
  /\ parsed.args.fields["contextType"] = Undefined
  /\ parsed.args.fields["outputFormat"] = Str("typescript")
  /\ parsed.value.fields["framework"] = Str("jest")
  /\ parsed.value.fields["contextType"] = Str("file")
  /\ parsed.value.fields["outputFormat"] = Str("typescript")

(* ------------------------------- C24 ----------------------------------- *)
\* the step is the close event of connection c
Closes(c) == c \in 1..Len(conns) /\ conns[c].open /\ ~conns'[c].open

\* the step accepts a GET /mcp
Accepts == Len(conns') = Len(conns) + 1

\* the step answers a request other than an accepted GET /mcp
AnswersOther ==
  /\ last' # last
  /\ \/ last'.route \in {PostMessage, GetHealth}
     \/ last'.status # 200

\* the step completes a handler
Completes == \E e \in inflight : e \notin inflight'

\* C24: a step changes the session table only by accepting a GET /mcp, which
\* adds one key, or by the close event of a connection, which removes exactly
\* that connection's id; a POST /mcp/message with any outcome, a GET /health,
\* a rejected request and a handler completion leave the table unchanged.
C24_SessionTableFrame ==
  [][ /\ (sessions' # sessions) =>
            \/ /\ Accepts
               /\ last'.route = GetMcp /\ last'.status = 200
               /\ Keys(sessions') = Keys(sessions) \cup {conns'[Len(conns')].sid}
            \/ \E c \in 1..Len(conns) : Closes(c)
      /\ \A c \in 1..Len(conns) :
            Closes(c) => sessions' = {e \in sessions : e.key # conns[c].sid}
      /\ AnswersOther => sessions' = sessions
      /\ Completes => sessions' = sessions ]_vars

\* two sessions were opened, the second has closed, the first is still in the
\* table, and a POST has been answered since
C24_Witness ==
  /\ Len(conns) = 2
  /\ conns[1].open /\ ~conns[2].open
  /\ Keys(sessions) = {conns[1].sid}
  /\ IsPost(last) /\ last.status = 404 /\ last.conn = "closed"

(* ------------------------------- C25 ----------------------------------- *)
\* ids of the connections accepted and not yet closed
OpenIds == {conns[c].sid : c \in {d \in 1..Len(conns) : conns[d].open}}

Announced(c) ==
  {conns[c].stream[i].data :
     i \in {j \in 1..Len(conns[c].stream) : conns[c].stream[j].event = "endpoint"}}

\* every id announced on an open connection is registered to that connection
C26_AnnouncedIsRegistered ==
  \A c \in 1..Len(conns) :
     conns[c].open =>
        /\ Announced(c) # {}
        /\ \A sid \in Announced(c) : Get(sessions, sid) = c

\* a credentialed POST naming an id that an open connection has announced is
\* not answered 404
C26_PostAfterAnnouncement ==
  (/\ last' # last
   /\ IsPost(last') /\ Credentialed(last')
   /\ \E c \in 1..Len(conns) : conns[c].open /\ last'.sessionId.val \in Announced(c))
     => last'.status # 404

\* C26: the session id is in the session table whenever the endpoint event
\* carrying it is on the stream of an open connection, so a client that has
\* received the endpoint event and posts while the connection is open never
\* gets 404.
C26_RegistrationPrecedesAnnouncement ==
  []C26_AnnouncedIsRegistered /\ [][C26_PostAfterAnnouncement]_vars

\* a POST naming the id announced on the second connection, which is open,
\* was looked up and found
C26_Witness ==
  /\ Len(conns) = 2 /\ conns[2].open
  /\ IsPost(last) /\ Credentialed(last)
  /\ last.sessionId.val \in Announced(2)
  /\ last.lookup /\ last.status \in {202, 400}

(* ------------------------------- C27 ----------------------------------- *)
\* the run*Tool function of a registered tool
HandlerOf(name) ==
  CASE name = screenshotToolName -> "runScreenshotTool"
    [] name = architectToolName -> "runArchitectTool"
    [] OTHER -> "runCodeReviewTool"

\* C27: for the callTool request received last, name resolution comes first
\* (an unregistered name fails there whatever the arguments, with no
\* validation and no handler), validation second (a failure enters no
\* handler), the handler is entered only with arguments that passed the
\* tool's schema, a failure at any step is answered at once by one error
\* envelope, a request whose handler is still running has no envelope yet
\* and one that settled has exactly one, and the outcome is a function of
\* the request alone.
C27_RequestStateMachine ==
  (lastReq.req.method = CallTool) =>
     LET r == lastReq.req
         o == lastReq.outcome
         running == \E e \in inflight : e.n = lastReq.n
     IN /\ ~Registered(r.name) =>
              (o.kind = "throw" /\ o.cause = "unknown-tool" /\ o.handler = "")
        /\ (Registered(r.name) /\ ~ParseOk(SchemaOf(r.name), r.args)) =>
              (o.kind = "throw" /\ o.cause = "validation" /\ o.handler = "")
        /\ (Registered(r.name) /\ ParseOk(SchemaOf(r.name), r.args)) =>
              o.handler = HandlerOf(r.name)
        /\ (o.handler # "") =>
              (Registered(r.name) /\ ParseOk(SchemaOf(r.name), r.args))
        /\ (o.kind = "throw") =>
              /\ ~running
              /\ Cardinality(EnvelopesOf(lastReq.n)) = 1
              /\ \A i \in EnvelopesOf(lastReq.n) :
                    stdout[i].hasError /\ stdout[i].cause = o.cause
        /\ (o.kind \in {"suspend", "block"}) =>
              Cardinality(EnvelopesOf(lastReq.n)) = (IF running THEN 0 ELSE 1)
        /\ o = Handler(r)

\* the second request failed validation and was answered while the handler
\* of the first is still running
C27_Witness ==
  /\ lastReq.n = 2
  /\ lastReq.req.method = CallTool
  /\ lastReq.outcome.cause = "validation"
  /\ \E e \in inflight : e.n = 1
  /\ Len(stdout) = 1 /\ stdout[1].n = 2 /\ stdout[1].hasError

(* ------------------------------- C28 ----------------------------------- *)
\* C28: in stdio mode nothing but RPC messages is written to the process's
\* output stream: no log line is written there by starting the server or by
\* handling a listTools or callTool request.
C28_StdioOutputPurity ==
  (connected = "stdio") => console = NoLine

(* ------------------------------- C29 ----------------------------------- *)
\* no screenshot call is in flight
NoShotInFlight == pc \in {"idle", "returned", "raised"}

\* C29: when no screenshot call is in flight, every browser a call launched
\* has been closed: the call under examination closed its browser before it
\* returned or raised, whichever step failed, and no browser of an earlier
\* call remains.
C29_BrowserRelease ==
  NoShotInFlight =>
     /\ shot.launched => shot.closed
     /\ unclosed = 0

(* ------------------------------- C30 ----------------------------------- *)
\* the call under examination has left the browser path through its catch
AfterCatch == shot.failed # "" /\ pc \in {"save", "returned", "raised"}

\* C30: a call whose browser path failed at any step has run the fallback
\* exactly once (and a call whose browser path did not fail has not run it);
\* with a writable output path it ends by returning the two-part result; it
\* raises from the fallback on only when the output path cannot be written.
C30_ScreenshotFallback ==
  /\ shot.fallbacks = (IF AfterCatch THEN 1 ELSE 0)
  /\ (shot.failed # "") => shot.failed \in {BrowserPath[i] : i \in 1..Len(BrowserPath)}
  /\ (AfterCatch /\ shot.writable) =>
        /\ pc # "raised"
        /\ (pc = "returned") =>
              (shot.result.kind = "return" /\ shot.result.content = << "text", "image" >>)
  /\ (AfterCatch /\ pc = "raised") =>
        (~shot.writable /\ ~shot.wrote /\ shot.result.kind = "throw")

\* the browser closed with an error after the capture, the fallback's try
\* block failed too, and the call still returned
C30_Witness ==
  /\ pc = "returned"
  /\ shot.failed = "close"
  /\ shot.fallbacks = 1
  /\ shot.buffer = "text"
  /\ shot.result.kind = "return"

(* ------------------------------- C31 ----------------------------------- *)
\* C31: an architect or code-review handler called with validated arguments
\* returns, whatever the outcome of its external call: its result has exactly
\* one part, of type text, which describes the error when the call failed,
\* and the response to the request is a result envelope, not an error one.
C31_ExternalFailureIsResult ==
  (ran.tool # "") =>
     /\ ran.result.kind = "return"
     /\ ran.result.content = << "text" >>
     /\ (~ran.ok) => ran.text \in {"OpenAI Error", "Error running git diff"}
     /\ Len(ran.envelope) = 1
     /\ ran.envelope[1].hasResult /\ ~ran.envelope[1].hasError
     /\ ran.envelope[1].content = << "text" >>

\* the chat completion request of an architect run failed and the response
\* is a result
C31_Witness ==
  /\ ran.tool = architectToolName
  /\ ~ran.ok
  /\ ran.text = "OpenAI Error"
  /\ ran.envelope[1].hasResult

(* ------------------------------- C32 ----------------------------------- *)
\* the names in the listing
ListedNames == {ListedTools[i].name : i \in 1..Len(ListedTools)}

\* the names a client sends in callTool requests
CalledNames == {r.name : r \in CallRequests}

\* the names the switch of the CallTool handler resolves to a case of its own
ResolvedNames ==
  {n \in CalledNames :
     \A r \in CallRequests : r.name = n => CallToolHandler(r).cause # "unknown-tool"}

\* C32: the names a listTools response lists are exactly the names callTool
\* resolves; a call of a listed name is resolved, a call of any other name,
\* "apitests" among them, ends as an unknown tool with no handler entered.
C32_RegistryConsistency ==
  /\ (lastReq.req.method = ListTools) =>
        {lastReq.outcome.content[i] : i \in 1..Len(lastReq.outcome.content)} = ResolvedNames
  /\ (lastReq.req.method = CallTool) =>
        /\ (lastReq.req.name \in ListedNames) <=> (lastReq.outcome.cause # "unknown-tool")
        /\ (lastReq.req.name \notin ListedNames) => lastReq.outcome.handler = ""
        /\ (lastReq.req.name = apiTestGeneratorToolName) =>
              lastReq.outcome.cause = "unknown-tool"

\* the tools were listed, then a call named "apitests" was rejected as unknown
C32_Witness ==
  /\ lastReq.n = 2
  /\ lastReq.req.name = apiTestGeneratorToolName
  /\ lastReq.outcome.cause = "unknown-tool"
  /\ Len(stdout) = 2
  /\ stdout[1].hasResult /\ Len(stdout[1].content) = 3
  /\ stdout[2].hasError

C33_HttpFailureContained ==
  /\ exitCode = 0 /\ phase = "running"
  /\ last.status = 404

(* ------------------------------- C34 ----------------------------------- *)
\* C34: every GET /health, with or without a credential header, is answered
\* 200 {status:"ok"}; it creates no session, performs no session lookup and
\* hands nothing to the Dispatcher.
C34_HealthEndpoint ==
  (last.route = GetHealth) =>
     /\ last.status = 200
     /\ last.created = "" /\ ~last.lookup /\ ~last.handed

(* ------------------------------- C35 ----------------------------------- *)
\* C35: whenever the screenshot handler has returned, the output file holds
\* exactly the bytes whose base64 encoding is the data of the returned image
\* part, whether they came from the browser or from the fallback.
C35_SavedFileMatchesImage ==
  (pc = "returned") =>
     /\ shot.file # ""
     /\ shot.image = Base64(shot.file)
     /\ shot.image.base64 = shot.bytes

\* returned through the fallback with the placeholder text as the image
C35_Witness ==
  /\ pc = "returned"
  /\ shot.fallbacks = 1
  /\ shot.file = "placeholder"
  /\ shot.image = Base64("placeholder")

\* returned on the browser path with the capture as the image
C35_BrowserPath ==
  /\ pc = "returned"
  /\ shot.fallbacks = 0
  /\ shot.file = "png"

(* ------------------------------- C37 ----------------------------------- *)
\* C37: once takeScreenshotWithCurl has ended, the temporary page
\* <outputPath>.html does not exist, whichever of its operations failed.
C37_TempFileCleanup ==
  (shot.fallbacks = 1 /\ pc \in {"save", "returned", "raised"}) => ~shot.temp

(* ------------------------------- C36 ----------------------------------- *)
\* C36: a non-empty url is the target unchanged, whatever relativePath is;
\* otherwise, with a non-empty relativePath, the target is
\* http://localhost:3333/ followed by relativePath without its first
\* character when that is a slash, and unchanged otherwise, so that a path
\* and the same path behind one slash give the same target.
C36_ScreenshotTargetUrl ==
  resolved.done =>
     LET u == resolved.url
         r == resolved.relativePath
         f == resolved.finalUrl
     IN /\ (~Empty(u)) => f = u
        /\ (Empty(u) /\ ~Empty(r)) =>
              /\ f.kind = "string"
              /\ Len(f.chars) >= 3
              /\ SubSeq(f.chars, 1, 3) = << "http://localhost:", "3333", "/" >>
              /\ SubSeq(f.chars, 4, Len(f.chars)) =
                    (IF Head(r.chars) = "/" THEN Tail(r.chars) ELSE r.chars)
              /\ (Head(r.chars) # "/") => f = FinalUrl(u, Text(<< "/" >> \o r.chars))

\* a relativePath with two leading slashes keeps the second
C36_Witness ==
  /\ resolved.done
  /\ Empty(resolved.url)
  /\ resolved.relativePath = Text(<< "/", "/", "d" >>)
  /\ resolved.finalUrl = Text(<< "http://localhost:", "3333", "/", "/", "d" >>)

====
